---- MODULE Spec2Model ----
(***************************************************************************)
(* Reconciliation engine of missing-persons-utils:                         *)
(*   - compare_dataframes (compare.py): snapshot diff,                     *)
(*   - the "Adatok egyesitese" branch of streamlit_app.py: ledger merge,   *)
(*   - scrape_missing_persons of collect_missing.py and collect-missing.py:*)
(*     the collectors.                                                     *)
(*                                                                         *)
(* A DataFrame is a record [cols, rows]: cols is the sequence of column    *)
(* names, rows the sequence of rows, each row a function from the column   *)
(* names to values.  NA is the pandas missing value (NaN / None).          *)
(*                                                                         *)
(* Strings are written without diacritics:                                 *)
(*   "Nev" = Nev (name), "Szuletesi datum" = birth date, "Nem" = gender,   *)
(*   "Szuletesi hely" = birth place, "Szuletesi orszag" = birth country,   *)
(*   "Korozest elrendelo szerv" = ordering authority,                      *)
(*   "Eltunes datuma" = date of disappearance (the observation label),     *)
(*   "Valtozas" = change kind, "Uj" = added, "Torolt" = removed,           *)
(*   "Adatvaltozas" = modified, " (elozo)" = before, " (uj)" = after.      *)
(* A column of a merge result is a record [name, sfx]: the name of the     *)
(* input column and the suffix pandas appended to it ("" when none).       *)
(***************************************************************************)
EXTENDS Integers, Sequences, FiniteSets, TLC

VARIABLES old_df, new_df, changes_df, pc, default_keys,
          ongoing_df, incoming, today, summary, only_in_ongoing,
          prior_df, outcome, repeat, sheets,
          variant, site, page, requested, all_persons, result_df, scrape_pc

vars == <<old_df, new_df, changes_df, pc, default_keys,
          ongoing_df, incoming, today, summary, only_in_ongoing,
          prior_df, outcome, repeat, sheets,
          variant, site, page, requested, all_persons, result_df, scrape_pc>>

diffVars == <<old_df, new_df, changes_df, pc, default_keys>>
mergeVars == <<ongoing_df, incoming, today, summary, only_in_ongoing,
               prior_df, outcome, repeat, sheets>>
scrapeVars == <<variant, site, page, requested, all_persons, result_df,
                scrape_pc>>

(***************************************************************************)
(* Values and names                                                        *)
(***************************************************************************)
NA == "NaN"

Nev == "Nev"
SzuletesiDatum == "Szuletesi datum"
Nem == "Nem"
SzuletesiHely == "Szuletesi hely"
SzuletesiOrszag == "Szuletesi orszag"
KorozestElrendeloSzerv == "Korozest elrendelo szerv"
Valtozas == "Valtozas"

SfxElozo == " (elozo)"
SfxUj == " (uj)"

Uj == "Uj"
Torolt == "Torolt"
Adatvaltozas == "Adatvaltozas"

key_columns == <<Nev, SzuletesiDatum>>

isna(v) == v = NA

Range(s) == {s[i] : i \in 1..Len(s)}

RECURSIVE Flatten(_)
Flatten(ss) == IF ss = <<>> THEN <<>> ELSE Head(ss) \o Flatten(Tail(ss))

CN(name, sfx) == [name |-> name, sfx |-> sfx]

NonKey(cols, keys) == SelectSeq(cols, LAMBDA c : c \notin Range(keys))

(***************************************************************************)
(* pandas DataFrame.merge(on=keys, how, suffixes=(sl, sr), indicator)      *)
(***************************************************************************)
\* non-key columns present in both frames: only these receive a suffix
Overlap(l, r, keys) ==
    {c \in Range(l.cols) \cap Range(r.cols) : c \notin Range(keys)}

Suffixed(cols, ov, sfx) ==
    [i \in 1..Len(cols) |-> CN(cols[i], IF cols[i] \in ov THEN sfx ELSE "")]

\* the left frame's columns, then the right frame's non-key columns
MergeCols(l, r, keys, sl, sr) ==
    Suffixed(l.cols, Overlap(l, r, keys), sl)
        \o Suffixed(NonKey(r.cols, keys), Overlap(l, r, keys), sr)

\* join keys compare equal value by value; a missing key matches a missing key
KeyEq(a, b, keys) == \A i \in 1..Len(keys) : a[keys[i]] = b[keys[i]]

RightMatches(lrow, r, keys) ==
    SelectSeq(r.rows, LAMBDA rr : KeyEq(lrow, rr, keys))

\* one row of the result: cols and ov are MergeCols and Overlap of the call
JoinedRow(l, cols, ov, sl, lrow, rrow, hasR) ==
    [c \in Range(cols) |->
        IF c.name \in ov
        THEN IF c.sfx = sl THEN lrow[c.name]
             ELSE IF hasR THEN rrow[c.name] ELSE NA
        ELSE IF c.name \in Range(l.cols) THEN lrow[c.name]
             ELSE IF hasR THEN rrow[c.name] ELSE NA]

\* each row carries the indicator (_merge) next to its values, as ind
MergeFrames(l, r, keys, how, sl, sr) ==
    LET cols == MergeCols(l, r, keys, sl, sr)
        ov == Overlap(l, r, keys)
        rowsFor(lrow) ==
            LET ms == RightMatches(lrow, r, keys)
            IN  IF ms = <<>>
                THEN IF how = "left"
                     THEN << [row |-> JoinedRow(l, cols, ov, sl, lrow, lrow, FALSE),
                              ind |-> "left_only"] >>
                     ELSE <<>>
                ELSE [j \in 1..Len(ms) |->
                        [row |-> JoinedRow(l, cols, ov, sl, lrow, ms[j], TRUE),
                         ind |-> "both"]]
    IN  [cols |-> cols,
         rows |-> Flatten([i \in 1..Len(l.rows) |-> rowsFor(l.rows[i])])]

\* .query('_merge == "left_only"').drop("_merge", axis=1)
LeftOnly(m) ==
    LET kept == SelectSeq(m.rows, LAMBDA x : x.ind = "left_only")
    IN  [cols |-> m.cols, rows |-> [i \in 1..Len(kept) |-> kept[i].row]]

DropInd(m) ==
    [cols |-> m.cols, rows |-> [i \in 1..Len(m.rows) |-> m.rows[i].row]]

\* pd.concat(frames, ignore_index=True): union of the columns in order of
\* first appearance, missing cells filled with NA
RECURSIVE ConcatCols(_, _)
ConcatCols(fs, acc) ==
    IF fs = <<>> THEN acc
    ELSE ConcatCols(Tail(fs),
                    acc \o SelectSeq(Head(fs).cols, LAMBDA c : c \notin Range(acc)))

Reindex(row, cols) ==
    [c \in Range(cols) |-> IF c \in DOMAIN row THEN row[c] ELSE NA]

Concat(fs) ==
    LET cols == ConcatCols(fs, <<>>)
    IN  [cols |-> cols,
         rows |-> Flatten([k \in 1..Len(fs) |->
                     [i \in 1..Len(fs[k].rows) |-> Reindex(fs[k].rows[i], cols)]])]

(***************************************************************************)
(* compare.py: compare_dataframes                                          *)
(***************************************************************************)
new_rows(o, n, keys) ==
    LeftOnly(MergeFrames(n, o, keys, "left", SfxUj, SfxElozo))

deleted_rows(o, n, keys) ==
    LeftOnly(MergeFrames(o, n, keys, "left", SfxElozo, SfxUj))

merged_df(o, n, keys) ==
    DropInd(MergeFrames(o, n, keys, "inner", SfxElozo, SfxUj))

\* elementwise != of two Series: a missing value differs from everything
col_diff(a, b) == isna(a) \/ isna(b) \/ a # b

\* mutation: the both-missing case is not exempted
both_nan_never(a, b) == FALSE

\* mutation: | in place of &
both_nan_either(a, b) == isna(a) \/ isna(b)

both_nan(a, b) == isna(a) /\ isna(b)

\* only columns that carry both suffixes in merged_df are compared
changed_mask(o, keys, mcols, row) ==
    \E col \in Range(NonKey(o.cols, keys)) :
        /\ CN(col, SfxElozo) \in mcols
        /\ CN(col, SfxUj) \in mcols
        /\ col_diff(row[CN(col, SfxElozo)], row[CN(col, SfxUj)])
        /\ ~both_nan(row[CN(col, SfxElozo)], row[CN(col, SfxUj)])

changed_rows(o, n, keys) ==
    LET m == merged_df(o, n, keys)
        mcols == Range(m.cols)
    IN  [cols |-> m.cols,
         rows |-> SelectSeq(m.rows, LAMBDA row : changed_mask(o, keys, mcols, row))]

\* mutation: the first group ends one row early
TagAtOffByOne(i, new_count, deleted_count) ==
    IF i < new_count THEN Uj
    ELSE IF i <= new_count + deleted_count THEN Torolt
    ELSE Adatvaltozas

\* the change kind is set by position in the concatenation
TagAt(i, new_count, deleted_count) ==
    IF i <= new_count THEN Uj
    ELSE IF i <= new_count + deleted_count THEN Torolt
    ELSE Adatvaltozas

\* concat of the three groups plus the column "Valtozas" as last column
TaggedChanges(o, n, keys) ==
    LET nr == new_rows(o, n, keys)
        dr == deleted_rows(o, n, keys)
        c == Concat(<<nr, dr, changed_rows(o, n, keys)>>)
        new_count == Len(nr.rows)
        deleted_count == Len(dr.rows)
        cols == c.cols \o <<CN(Valtozas, "")>>
    IN  [cols |-> cols,
         rows |-> [i \in 1..Len(c.rows) |->
                     [x \in Range(cols) |->
                        IF x = CN(Valtozas, "")
                        THEN TagAt(i, new_count, deleted_count)
                        ELSE c.rows[i][x]]]]

\* changes_df[old_col] / changes_df[new_col] raise KeyError for a column of
\* old_df that received no suffix
CollapseKeyError(o, keys, ch) ==
    \E col \in Range(NonKey(o.cols, keys)) :
        \/ CN(col, SfxElozo) \notin Range(ch.cols)
        \/ CN(col, SfxUj) \notin Range(ch.cols)

\* mutation: a column is collapsed whatever its values
IsSameAlways(ch, col) == TRUE

IsSame(ch, col) ==
    \A i \in 1..Len(ch.rows) :
        \/ (~isna(ch.rows[i][CN(col, SfxElozo)])
              /\ ~isna(ch.rows[i][CN(col, SfxUj)])
              /\ ch.rows[i][CN(col, SfxElozo)] = ch.rows[i][CN(col, SfxUj)])
        \/ isna(ch.rows[i][CN(col, SfxElozo)])
        \/ isna(ch.rows[i][CN(col, SfxUj)])

same_columns(o, keys, ch) ==
    SelectSeq(NonKey(o.cols, keys), LAMBDA col : IsSame(ch, col))

\* mutation: the before-value is taken even when it is missing
combine_first_left(a, b) == a

combine_first(a, b) == IF isna(a) THEN b ELSE a

\* the collapsed column is appended, the suffixed pair is dropped
Collapse(o, keys, ch) ==
    LET same == same_columns(o, keys, ch)
        kept == SelectSeq(ch.cols, LAMBDA c :
                    ~(c.name \in Range(same) /\ c.sfx \in {SfxElozo, SfxUj}))
        cols == kept \o [i \in 1..Len(same) |-> CN(same[i], "")]
    IN  [cols |-> cols,
         rows |-> [i \in 1..Len(ch.rows) |->
                     [c \in Range(cols) |->
                        IF c.sfx = "" /\ c.name \in Range(same)
                        THEN combine_first(ch.rows[i][CN(c.name, SfxElozo)],
                                           ch.rows[i][CN(c.name, SfxUj)])
                        ELSE ch.rows[i][c]]]]

\* mutation: the name of the after-column is not derived, the before-column
\* is appended twice
next_col_unreplaced(prev_col) == prev_col

\* next_col = col.replace(" (elozo)", " (uj)")
next_col(prev_col) == CN(prev_col.name, SfxUj)

RECURSIVE all_columns(_, _)
all_columns(cols, acc) ==
    IF cols = <<>> THEN acc \o <<CN(Valtozas, "")>>
    ELSE LET col == Head(cols)
         IN  IF col \in Range(acc) \/ col = CN(Valtozas, "")
             THEN all_columns(Tail(cols), acc)
             ELSE IF col.sfx = SfxUj
             THEN all_columns(Tail(cols), acc)
             ELSE IF col.sfx = SfxElozo
             THEN all_columns(Tail(cols), acc \o <<col, next_col(col)>>)
             ELSE all_columns(Tail(cols), acc \o <<col>>)

KeyCols(keys) == [i \in 1..Len(keys) |-> CN(keys[i], "")]

\* err = TRUE: the call raised KeyError and returned nothing
compare_dataframes(o, n, keys) ==
    LET tagged == TaggedChanges(o, n, keys)
    IN  IF CollapseKeyError(o, keys, tagged)
        THEN [err |-> TRUE, cols |-> <<>>, rows |-> <<>>]
        ELSE LET ch == Collapse(o, keys, tagged)
                 ordered == all_columns(ch.cols, KeyCols(keys))
             IN  [err |-> FALSE,
                  cols |-> ordered,
                  rows |-> [i \in 1..Len(ch.rows) |->
                              [c \in Range(ordered) |-> ch.rows[i][c]]]]

(***************************************************************************)
(* streamlit_app.py: the merge of the ledger (ongoing_df) with the new     *)
(* data, run when the button "Adatok egyesitese" is pressed                *)
(***************************************************************************)
ObsLabel == "Eltunes datuma"

\* f"Eltunes datuma {current_date}" for the dates of the model
DatedCol(d) ==
    CASE d = "2023-01-01" -> "Eltunes datuma 2023-01-01"
      [] d = "2024-06-01" -> "Eltunes datuma 2024-06-01"
      [] d = "2024-06-02" -> "Eltunes datuma 2024-06-02"
      [] d = "2024-06-03" -> "Eltunes datuma 2024-06-03"
      [] d = "2024-06-04" -> "Eltunes datuma 2024-06-04"

KnownDates == {"2023-01-01", "2024-06-01", "2024-06-02", "2024-06-03", "2024-06-04"}

\* "Eltunes datuma" in col: the bare label contains the label as well
ContainsLabel(col) == col = ObsLabel \/ \E d \in KnownDates : col = DatedCol(d)

\* mutation: every column is taken for an observation column
date_columns_all(n) == n.cols

date_columns(n) == SelectSeq(n.cols, ContainsLabel)

\* "" when neither branch assigns it (the merge stops)
eltunes_column_name(n, current_date) ==
    IF date_columns(n) # <<>> THEN date_columns(n)[1]
    ELSE IF ObsLabel \in Range(n.cols) THEN DatedCol(current_date)
    ELSE ""

missing_date_source_column(n) ==
    IF date_columns(n) # <<>> THEN date_columns(n)[1]
    ELSE IF ObsLabel \in Range(n.cols) THEN ObsLabel
    ELSE ""

required_columns(n) == <<Nev, SzuletesiDatum, missing_date_source_column(n)>>

id_columns == <<Nev, SzuletesiDatum>>

required_base_columns ==
    <<Nev, Nem, SzuletesiHely, SzuletesiDatum, SzuletesiOrszag>>

\* df[col] = None when col is not a column of df
WithColumn(f, col) ==
    IF col \in Range(f.cols) THEN f
    ELSE [cols |-> Append(f.cols, col),
          rows |-> [i \in 1..Len(f.rows) |->
                      [c \in Range(f.cols) \cup {col} |->
                          IF c = col THEN NA ELSE f.rows[i][c]]]]

RECURSIVE WithColumns(_, _)
WithColumns(f, cols) ==
    IF cols = <<>> THEN f
    ELSE WithColumns(WithColumn(f, Head(cols)), Tail(cols))

\* mutation: the ledger is cut down to the base columns and the current
\* observation column
Narrowed(o, eltunes) ==
    LET w == WithColumn(WithColumns(o, required_base_columns), eltunes)
        cols == Append(required_base_columns, eltunes)
    IN  [cols |-> cols,
         rows |-> [i \in 1..Len(w.rows) |-> [c \in Range(cols) |-> w.rows[i][c]]]]

\* the base columns and the current observation column are added when absent
Widened(o, eltunes) ==
    WithColumn(WithColumns(o, required_base_columns), eltunes)

\* df[cols]
Project(f, cols) ==
    [cols |-> cols,
     rows |-> [i \in 1..Len(f.rows) |-> [c \in Range(cols) |-> f.rows[i][c]]]]

\* a merge result in which no column was suffixed, as a DataFrame
Plain(m) ==
    [cols |-> [i \in 1..Len(m.cols) |-> m.cols[i].name],
     rows |-> [i \in 1..Len(m.rows) |->
                 [c \in {m.cols[j].name : j \in 1..Len(m.cols)} |->
                     m.rows[i][CN(c, "")]]]]

common_people(o, n) ==
    Plain(DropInd(MergeFrames(Project(o, id_columns), Project(n, id_columns),
                              id_columns, "inner", "_x", "_y")))

\* elementwise == of a Series with a scalar: a missing value equals nothing
eq(a, b) == ~isna(a) /\ ~isna(b) /\ a = b

Mask(f, row) ==
    {i \in 1..Len(f.rows) :
        eq(f.rows[i][Nev], row[Nev]) /\ eq(f.rows[i][SzuletesiDatum], row[SzuletesiDatum])}

Min(S) == CHOOSE x \in S : \A y \in S : x <= y

\* the loop over common_people; err: .values[0] of an empty selection
\* raised IndexError
RECURSIVE UpdateCommon(_, _, _, _, _)
UpdateCommon(o, n, cp, src, eltunes) ==
    IF cp = <<>> THEN [err |-> FALSE, df |-> o]
    ELSE LET row == Head(cp)
             ongoing_mask == Mask(o, row)
             new_mask == Mask(n, row)
         IN  IF new_mask = {} THEN [err |-> TRUE, df |-> o]
             ELSE LET missing_date == n.rows[Min(new_mask)][src]
                      o2 == [cols |-> o.cols,
                             rows |-> [i \in 1..Len(o.rows) |->
                                         IF i \in ongoing_mask
                                         THEN [o.rows[i] EXCEPT ![eltunes] = missing_date]
                                         ELSE o.rows[i]]]
                  IN  UpdateCommon(o2, n, Tail(cp), src, eltunes)

\* mutation: every record of the new data counts as new
new_only_people_all(o, n) == Project(n, id_columns)

new_only_people(o, n) ==
    Plain(LeftOnly(MergeFrames(Project(n, id_columns), Project(o, id_columns),
                               id_columns, "left", "_x", "_y")))

\* df[col] = values (assignment to a new or an existing column)
Assign(f, col, vals) ==
    [cols |-> IF col \in Range(f.cols) THEN f.cols ELSE Append(f.cols, col),
     rows |-> [i \in 1..Len(f.rows) |->
                 [c \in Range(f.cols) \cup {col} |->
                     IF c = col THEN vals[i] ELSE f.rows[i][c]]]]

\* mutation: every record of the new data is appended
new_records_every(o, n, nop, src, eltunes) ==
    LET filled == WithColumns(n, SelectSeq(o.cols, LAMBDA c : c # eltunes))
        dated == Assign(filled, eltunes,
                        [i \in 1..Len(filled.rows) |-> filled.rows[i][src]])
    IN  Project(dated, o.cols)

\* the rows appended for the people only in the new data
new_records(o, n, nop, src, eltunes) ==
    LET joined == Plain(DropInd(MergeFrames(n, nop, id_columns, "inner", "_x", "_y")))
        filled == WithColumns(joined, SelectSeq(o.cols, LAMBDA c : c # eltunes))
        dated == Assign(filled, eltunes,
                        [i \in 1..Len(filled.rows) |-> filled.rows[i][src]])
    IN  Project(dated, o.cols)

\* mutation: the new records are not subtracted
num_only_in_ongoing_mut(final, num_common, num_new) == final - num_common

num_only_in_ongoing(final, num_common, num_new) == final - num_common - num_new

\* Series.isin(values): a missing value is in a collection that holds one
isin(v, f, col) == \E i \in 1..Len(f.rows) : f.rows[i][col] = v

\* the rows listed under "Csak meglevoben": the mask looks at "Nev" only
only_in_ongoing_rows(final, cp, nop) ==
    [cols |-> final.cols,
     rows |-> SelectSeq(final.rows, LAMBDA r :
                 ~isin(r[Nev], cp, Nev) /\ ~isin(r[Nev], nop, Nev))]

NoFrame == [cols |-> <<>>, rows |-> <<>>]
NoSummary == [written |-> FALSE]

\* mutation: a sheet with a header and no rows is not empty
empty_without_columns(f) == f.cols = <<>>

\* DataFrame.empty
empty(f) == f.rows = <<>> \/ f.cols = <<>>

\* mutation: the new records are put before the rows of the ledger
append_records_first(df, records) ==
    [cols |-> df.cols, rows |-> records.rows \o df.rows]

\* pd.concat([ongoing_df, new_records], ignore_index=True)
append_records(df, records) ==
    [cols |-> df.cols, rows |-> df.rows \o records.rows]

\* the whole branch: status "empty" (warning, nothing merged), "stopped"
\* (st.error and st.stop), "error" (exception caught by the handler) or
\* "merged" (the merged ledger and its summary sheet are offered)
MergeLedger(ongoing, n, current_date) ==
    IF empty(ongoing) \/ empty(n)
    THEN [status |-> "empty", df |-> ongoing, summary |-> NoSummary, only |-> NoFrame]
    ELSE IF date_columns(n) = <<>> /\ ObsLabel \notin Range(n.cols)
    THEN [status |-> "stopped", df |-> ongoing, summary |-> NoSummary, only |-> NoFrame]
    ELSE IF ~(Range(required_columns(n)) \subseteq Range(n.cols))
    THEN [status |-> "stopped", df |-> ongoing, summary |-> NoSummary, only |-> NoFrame]
    ELSE
      LET eltunes == eltunes_column_name(n, current_date)
          src == missing_date_source_column(n)
          wide == Widened(ongoing, eltunes)
          cp == common_people(wide, n)
          upd == UpdateCommon(wide, n, cp.rows, src, eltunes)
      IN  IF upd.err
          THEN [status |-> "error", df |-> ongoing, summary |-> NoSummary,
                only |-> NoFrame]
          ELSE
            LET nop == new_only_people(upd.df, n)
                final == IF Len(nop.rows) > 0
                         THEN append_records(upd.df,
                                  new_records(upd.df, n, nop, src, eltunes))
                         ELSE upd.df
                num_common == Len(cp.rows)
                num_new == Len(nop.rows)
            IN  [status |-> "merged",
                 df |-> final,
                 summary |-> [written |-> TRUE,
                              date |-> current_date,
                              column |-> eltunes,
                              prior |-> Len(ongoing.rows),
                              incoming |-> Len(n.rows),
                              common |-> num_common,
                              new_only |-> num_new,
                              only_in_ongoing |->
                                  num_only_in_ongoing(Len(final.rows), num_common, num_new),
                              final |-> Len(final.rows)],
                 only |-> only_in_ongoing_rows(final, cp, nop)]

(***************************************************************************)
(* What the branch shows to the user with st.warning and st.error          *)
(***************************************************************************)
\* the messages of one press of the button, in the order of the branch:
\* the warning of an empty file, the errors of the two st.stop exits, the
\* warning of every base column that both files lack, the error of the
\* exception handler
messages(ongoing, n, current_date) ==
    LET Message(text, col) == [text |-> text, col |-> col]
    IN
    IF empty(ongoing) \/ empty(n)
    THEN {Message("Az egyik vagy mindket fajl ures!", "")}
    ELSE IF date_columns(n) = <<>> /\ ObsLabel \notin Range(n.cols)
    THEN {Message("Az uj adatokban nem talalhato 'Eltunes datuma' oszlop!", "")}
    ELSE IF ~(Range(required_columns(n)) \subseteq Range(n.cols))
    THEN {Message("Az uj adatokbol hianyoznak kotelezo oszlopok", "")}
    ELSE {Message("oszlop hianyzik mindket fajlbol. Ures oszlop beszurva.", col) :
             col \in {c \in Range(required_base_columns) :
                         c \notin Range(ongoing.cols) /\ c \notin Range(n.cols)}}
         \cup (IF MergeLedger(ongoing, n, current_date).status = "error"
               THEN {Message("Hiba az adatok egyesitese soran", "")}
               ELSE {})

(***************************************************************************)
(* The ledger file as a workbook: a sequence of sheets [name, cells], the  *)
(* first one holding the ledger.  cells are the rows of the used range of  *)
(* the sheet, each a sequence of cells; a cell is a text, a number or      *)
(* blank.                                                                   *)
(***************************************************************************)
Text(s) == [text |-> s]
Number(k) == [number |-> k]
BlankCell == [blank |-> TRUE]
IsBlank(c) == DOMAIN c = {"blank"}

Sheet(name, cells) == [name |-> name, cells |-> cells]

\* sheet_name="Adatbazis"
MainSheetName == "Adatbazis"

\* f"Osszesites {date}"
SummarySheetName(d) ==
    CASE d = "2024-06-01" -> "Osszesites 2024-06-01"
      [] d = "2024-06-02" -> "Osszesites 2024-06-02"
      [] d = "2024-06-03" -> "Osszesites 2024-06-03"
      [] d = "2024-06-04" -> "Osszesites 2024-06-04"

\* the names of the two uploaded files
ongoing_file_name == "adatbazis.xlsx"
new_file_name == "uj_adatok.xlsx"

\* pd.DataFrame(summary_data).to_excel(...): a header and ten rows
summary_cells(s) ==
    << <<Text("Leiras"), Text("Ertek")>>,
       <<Text("Meglevo adatbazis"), Text(ongoing_file_name)>>,
       <<Text("Uj adatok"), Text(new_file_name)>>,
       <<Text("Frissites datuma"), Text(s.date)>>,
       <<Text("Hasznalt eltunesi datum oszlop"), Text(s.column)>>,
       <<Text("Meglevo adatbazis rekordok szama"), Number(s.prior)>>,
       <<Text("Uj adatok szama"), Number(s.incoming)>>,
       <<Text("Frissitett adatok szama"), Number(s.common)>>,
       <<Text("Hozzaadott uj rekordok szama"), Number(s.new_only)>>,
       <<Text("Csak meglevoben talalhato rekordok szama"), Number(s.only_in_ongoing)>>,
       <<Text("Egyesitett adatbazis rekordok szama"), Number(s.final)>> >>

\* ongoing_df.to_excel(writer, index=False): the column names, then one row
\* of cells per record; a missing or empty value leaves its cell blank
frame_cells(f) ==
    << [i \in 1..Len(f.cols) |-> Text(f.cols[i])] >> \o
    [r \in 1..Len(f.rows) |->
        [i \in 1..Len(f.cols) |->
            IF isna(f.rows[r][f.cols[i]]) \/ f.rows[r][f.cols[i]] = ""
            THEN BlankCell ELSE Text(f.rows[r][f.cols[i]])]]

\* the label pandas gives to the column under a blank header cell
Unnamed(i) ==
    CASE i = 1 -> "Unnamed: 0"
      [] i = 2 -> "Unnamed: 1"
      [] i = 3 -> "Unnamed: 2"

\* pd.read_excel(ongoing_file, sheet_name=...): the first row of the sheet
\* becomes the column labels, the rows below it the data; an empty sheet
\* gives a frame without columns
read_excel(cells) ==
    IF cells = <<>> THEN [header |-> <<>>, data |-> <<>>]
    ELSE [header |-> [i \in 1..Len(cells[1]) |->
                         IF IsBlank(cells[1][i]) THEN Text(Unnamed(i))
                         ELSE cells[1][i]],
          data |-> Tail(cells)]

\* sheet_df.to_excel(writer, index=False)
to_excel(sheet_df) ==
    IF sheet_df.header = <<>> THEN <<>> ELSE <<sheet_df.header>> \o sheet_df.data

\* a second to_excel into a sheet of the writer: the cells it writes replace
\* the cells at the same positions, a blank value writes no cell
Overlay(under, over) ==
    LET Max(a, b) == IF a >= b THEN a ELSE b
        Width(cells, r) == IF r <= Len(cells) THEN Len(cells[r]) ELSE 0
        CellAt(cells, r, c) ==
            IF r <= Len(cells) /\ c <= Len(cells[r]) THEN cells[r][c]
            ELSE BlankCell
    IN  [r \in 1..Max(Len(under), Len(over)) |->
            [c \in 1..Max(Width(under, r), Width(over, r)) |->
                IF IsBlank(CellAt(over, r, c)) THEN CellAt(under, r, c)
                ELSE CellAt(over, r, c)]]

\* DataFrame.to_excel(writer, sheet_name=name): the sheet of that name when
\* the writer has one, a new sheet after the others otherwise
WriteSheet(book, name, cells) ==
    IF \E i \in 1..Len(book) : book[i].name = name
    THEN [i \in 1..Len(book) |->
             IF book[i].name = name
             THEN Sheet(name, Overlay(book[i].cells, cells))
             ELSE book[i]]
    ELSE Append(book, Sheet(name, cells))

\* the loop over ongoing_excel.sheet_names, from the k-th sheet on: every
\* sheet not named as the first one is read and written under its name
RECURSIVE CopySheets(_, _, _)
CopySheets(book, file, k) ==
    IF k > Len(file) THEN book
    ELSE IF file[k].name # file[1].name
    THEN CopySheets(WriteSheet(book, file[k].name,
                               to_excel(read_excel(file[k].cells))),
                    file, k + 1)
    ELSE CopySheets(book, file, k + 1)

\* the workbook written for download: the merged ledger, the summary of
\* this merge, then the other sheets of the uploaded ledger file
merged_workbook(file, final, s) ==
    CopySheets(
        WriteSheet(WriteSheet(<<>>, MainSheetName, frame_cells(final)),
                   SummarySheetName(s.date), summary_cells(s)),
        file, 1)

\* the sheets besides the ledger that the uploaded file may hold
InitialAux ==
    LET NoteCells == {
            << <<Text("Megjegyzes")>>, <<Text("x")>> >>,
            << <<Text("Megjegyzes"), BlankCell>>, <<Text("x"), Text("y")>> >> }
    IN  {<<>>} \cup {<<Sheet("Jegyzetek", c)>> : c \in NoteCells}

\* the uploaded ledger file holding the ledger f and the other sheets aux
LedgerFile(f, aux) == <<Sheet(MainSheetName, frame_cells(f))>> \o aux

(***************************************************************************)
(* The collectors: scrape_missing_persons and scrape_person_details of     *)
(* collect_missing.py (variant "async") and collect-missing.py (variant    *)
(* "sync").  The site is a sequence of list pages, page number p being     *)
(* site[p + 1].  A list page answers with                                  *)
(*   "ok"           status 200 and a person container,                     *)
(*   "status"       a status other than 200,                               *)
(*   "no_results"   status 200 and the text "Nincs talalat",               *)
(*   "no_container" status 200 without a person container,                 *)
(*   "raise"        an exception of the request,                           *)
(* and an "ok" page lists entries [pre_name, pre_birth_date, detail]: the  *)
(* name and birth date shown in the list ("" when not shown) and the       *)
(* answer of the detail page ("ok", "status" or "raise").                  *)
(***************************************************************************)
Async == "async"
Sync == "sync"

\* what the detail page of a person shows
DetailPage == [name |-> "A", birth_date |-> "2000-01-01", gender |-> "ferfi",
               missing_since |-> "2024-05-30"]

\* datetime.now().strftime("%Y-%m-%d") during the collection
CollectionDate == "2024-06-01"

\* the observation column of a collected record: dated in collect_missing.py,
\* the bare label in collect-missing.py
ObsColumn(v) == IF v = Async THEN DatedCol(CollectionDate) ELSE ObsLabel

PersonCols(v) == <<Nev, Nem, SzuletesiDatum, ObsColumn(v)>>

\* the dictionary initialised with the pre-extracted values
person_data(v, pre_name, pre_birth_date) ==
    [c \in Range(PersonCols(v)) |->
        IF c = Nev THEN pre_name
        ELSE IF c = SzuletesiDatum THEN pre_birth_date
        ELSE ""]

\* the dictionary after the title and the detail rows were read
detail_rows(v, pd) ==
    [c \in Range(PersonCols(v)) |->
        IF c = Nev THEN (IF pd[Nev] = "" THEN DetailPage.name ELSE pd[Nev])
        ELSE IF c = SzuletesiDatum
        THEN (IF pd[SzuletesiDatum] = "" THEN DetailPage.birth_date ELSE pd[SzuletesiDatum])
        ELSE IF c = Nem THEN DetailPage.gender
        ELSE DetailPage.missing_since]

\* what a call gives: a dictionary ("data"), None ("none") or an exception
\* ("raised")
Result(kind, data) == [kind |-> kind, data |-> data]

\* return person_data if pre_name or pre_birth_date else None, where
\* person_data is bound: collect_missing.py binds it before the request
partial_or_none(v, pre_name, pre_birth_date) ==
    IF pre_name # "" \/ pre_birth_date # ""
    THEN Result("data", person_data(v, pre_name, pre_birth_date))
    ELSE Result("none", <<>>)

\* the same return statement in the handler of collect-missing.py, where the
\* request fails before person_data is bound: reading the name raises
\* UnboundLocalError out of the handler
partial_or_none_unbound(v, pre_name, pre_birth_date) ==
    IF pre_name # "" \/ pre_birth_date # "" THEN Result("raised", <<>>)
    ELSE Result("none", <<>>)

scrape_person_details(v, e) ==
    IF e.detail = "ok"
    THEN Result("data",
                detail_rows(v, person_data(v, e.pre_name, e.pre_birth_date)))
    ELSE IF v = Async
    THEN partial_or_none(v, e.pre_name, e.pre_birth_date)
    ELSE partial_or_none_unbound(v, e.pre_name, e.pre_birth_date)

\* the records one list page adds to all_persons: the results that are
\* neither an exception nor None, in the order of the entries
RECURSIVE page_persons(_, _)
page_persons(v, entries) ==
    IF entries = <<>> THEN <<>>
    ELSE LET result == scrape_person_details(v, Head(entries))
         IN  (IF result.kind = "data" THEN <<result.data>> ELSE <<>>)
             \o page_persons(v, Tail(entries))

\* mutation: a page is skipped
next_page_skip(p) == p + 2

\* page += 1
next_page(p) == p + 1

\* pd.DataFrame(all_persons), pd.DataFrame() when nothing was collected
persons_frame(v, persons) ==
    IF persons = <<>> THEN [cols |-> <<>>, rows |-> <<>>]
    ELSE [cols |-> PersonCols(v), rows |-> persons]

MaxPages == 2
MaxPersons == 1

StopKinds == {"status", "no_results", "no_container", "raise"}

Entry(pre_name, pre_birth_date, detail) ==
    [pre_name |-> pre_name, pre_birth_date |-> pre_birth_date, detail |-> detail]

\* a person whose detail page is fetched, with and without the values of the
\* list page, and a person whose detail page fails, with the name, with the
\* birth date and with neither
Entries == {Entry("A", "2000-01-01", "ok"), Entry("", "", "ok"),
            Entry("A", "", "status"), Entry("", "2000-01-01", "raise"),
            Entry("", "", "status")}

OkPages ==
    {[kind |-> "ok", entries |-> es] :
        es \in UNION {[1..k -> Entries] : k \in 0..MaxPersons}}
StopPages == {[kind |-> k, entries |-> <<>>] : k \in StopKinds}

ScrapeIdle ==
    /\ variant = Async
    /\ site = <<>>
    /\ page = 0
    /\ requested = <<>>
    /\ all_persons = <<>>
    /\ result_df = NoFrame
    /\ scrape_pc = "idle"

(***************************************************************************)
(* Inputs of the diff: snapshots of at most MaxRows records over one of    *)
(* the two schemas (with or without the birth place).                      *)
(***************************************************************************)
MaxRows == 2

Names == {"A", "B"}
BirthDates == {"2000-01-01"}
Genders == {NA, "ferfi", "no"}
Places == {"Pecs"}

DiffSchemas == {<<Nev, SzuletesiDatum, Nem>>,
                <<Nev, SzuletesiDatum, Nem, SzuletesiHely>>}

ValuesOf(col) ==
    IF col = Nev THEN Names
    ELSE IF col = SzuletesiDatum THEN BirthDates
    ELSE IF col = Nem THEN Genders
    ELSE Places

RecordsOver(cols) ==
    {r \in [Range(cols) -> Names \cup BirthDates \cup Genders \cup Places] :
        \A c \in Range(cols) : r[c] \in ValuesOf(c)}

FramesOver(cols, n) ==
    {[cols |-> cols, rows |-> rs] :
        rs \in UNION {[1..k -> RecordsOver(cols)] : k \in 0..n}}

Snapshots == UNION {FramesOver(cols, MaxRows) : cols \in DiffSchemas}

NoChanges == [err |-> FALSE, cols |-> <<>>, rows |-> <<>>]

MergeIdle ==
    /\ ongoing_df = NoFrame
    /\ sheets = <<>>
    /\ incoming = NoFrame
    /\ prior_df = NoFrame
    /\ today = ""
    /\ summary = NoSummary
    /\ only_in_ongoing = NoFrame
    /\ outcome = "idle"
    /\ repeat = FALSE

InitDiff ==
    /\ old_df \in Snapshots
    /\ new_df \in Snapshots
    /\ changes_df = NoChanges
    /\ pc = "start"
    /\ default_keys = KeyCols(key_columns)
    /\ MergeIdle
    /\ ScrapeIdle

\* the diff of a snapshot with itself
InitSelf ==
    /\ old_df \in Snapshots
    /\ new_df = old_df
    /\ changes_df = NoChanges
    /\ pc = "start"
    /\ default_keys = KeyCols(key_columns)
    /\ MergeIdle
    /\ ScrapeIdle

\* the labels of a sequence of columns
Labels(cols) == [i \in 1..Len(cols) |-> cols[i].name]

\* mutation: all_columns is the list passed in, not a copy of it
key_columns_aliased(keys, r) == IF r.err THEN keys ELSE r.cols

\* the list passed as key_columns once the call is over: all_columns is a
\* copy, the appends of the reordering never reach the list itself
key_columns_after(keys, r) == keys

\* a call without key_columns: the default list of the function is used.
\* No statement of the function assigns into old_df or new_df: merge, ==,
\* isna and the selections return new frames, and the statements that work
\* in place (the tag column, iloc, drop) act on changes_df, which pd.concat
\* built.
CallEnds(next_pc, r) ==
    /\ changes_df' = r
    /\ default_keys' = key_columns_after(default_keys, r)
    /\ pc' = next_pc
    /\ UNCHANGED <<old_df, new_df>>
    /\ UNCHANGED mergeVars
    /\ UNCHANGED scrapeVars

Called(next_pc) ==
    CallEnds(next_pc, compare_dataframes(old_df, new_df, Labels(default_keys)))

Compare ==
    /\ pc = "start"
    /\ Called("done")

NextDiff == Compare

SpecDiff == InitDiff /\ [][NextDiff]_vars

SpecSelf == InitSelf /\ [][NextDiff]_vars

(***************************************************************************)
(* Inputs of the diff in which a gender is missing, the empty string (as   *)
(* the collector writes a field it did not find) or a value.               *)
(***************************************************************************)
Blank == ""

BlankGenders == {NA, Blank, "ferfi"}

BlankCols == <<Nev, SzuletesiDatum, Nem>>

BlankRecords ==
    {r \in [Range(BlankCols) -> Names \cup BirthDates \cup BlankGenders] :
        /\ r[Nev] \in Names
        /\ r[SzuletesiDatum] \in BirthDates
        /\ r[Nem] \in BlankGenders}

BlankSnapshots ==
    {[cols |-> BlankCols, rows |-> rs] :
        rs \in UNION {[1..k -> BlankRecords] : k \in 0..MaxRows}}

InitBlank ==
    /\ old_df \in BlankSnapshots
    /\ new_df \in BlankSnapshots
    /\ changes_df = NoChanges
    /\ pc = "start"
    /\ default_keys = KeyCols(key_columns)
    /\ MergeIdle
    /\ ScrapeIdle

SpecBlank == InitBlank /\ [][NextDiff]_vars

(***************************************************************************)
(* The ledger over the collection cycles.  Each day the new data of the    *)
(* day is merged into the ledger once, and the same merge may be run a     *)
(* second time; the merged ledger offered for download is the ledger       *)
(* uploaded to the next merge.                                             *)
(***************************************************************************)
MaxIncoming == 2

Days == <<"2024-06-01", "2024-06-02">>

MergeNames == {"A", "B", NA}

\* the new data of a day: the undated column of collect-missing.py or the
\* dated column of collect_missing.py, or a sheet lacking a required column
GoodSchemas(d) == {<<Nev, SzuletesiDatum, ObsLabel>>,
                   <<Nev, Nem, SzuletesiDatum, DatedCol(d)>>}

BadSchemas == {<<Nev, SzuletesiDatum>>, <<Nev, ObsLabel>>, <<SzuletesiDatum, ObsLabel>>}

IncomingRecords(cols, d) ==
    {r \in [Range(cols) -> MergeNames \cup BirthDates \cup {"ferfi", d}] :
        \A c \in Range(cols) :
            r[c] \in (IF c = Nev THEN MergeNames
                      ELSE IF c = SzuletesiDatum THEN BirthDates
                      ELSE IF c = Nem THEN {"ferfi"}
                      ELSE {d})}

IncomingOver(cols, d, n) ==
    {[cols |-> cols, rows |-> rs] :
        rs \in UNION {[1..k -> IncomingRecords(cols, d)] : k \in 0..n}}

IncomingSnapshots(d) ==
    UNION {IncomingOver(cols, d, MaxIncoming) : cols \in GoodSchemas(d)}
        \cup UNION {IncomingOver(cols, d, 1) : cols \in BadSchemas}

LedgerRow(name) ==
    [c \in {Nev, SzuletesiDatum, DatedCol("2023-01-01")} |->
        IF c = Nev THEN name
        ELSE IF c = SzuletesiDatum THEN "2000-01-01"
        ELSE "2023-01-01"]

LedgerCols == <<Nev, SzuletesiDatum, DatedCol("2023-01-01")>>

InitialLedgers ==
    {[cols |-> LedgerCols, rows |-> <<LedgerRow("A")>>],
     [cols |-> LedgerCols, rows |-> <<LedgerRow("A"), LedgerRow("B")>>]}

DiffIdle ==
    /\ default_keys = KeyCols(key_columns)
    /\ old_df = NoFrame
    /\ new_df = NoFrame
    /\ changes_df = NoChanges
    /\ pc = "idle"

Init ==
    /\ ongoing_df \in InitialLedgers
    /\ \E aux \in InitialAux : sheets = LedgerFile(ongoing_df, aux)
    /\ incoming = NoFrame
    /\ prior_df = NoFrame
    /\ today = Days[1]
    /\ summary = NoSummary
    /\ only_in_ongoing = NoFrame
    /\ outcome = "idle"
    /\ repeat = FALSE
    /\ DiffIdle
    /\ ScrapeIdle

\* the effect of pressing the button with the ledger o and the new data n;
\* new_df is only read: the columns are added to ongoing_df and to
\* new_records, the frame pd.merge returned
Outcome(o, n, again, r) ==
    /\ ongoing_df' = r.df
    /\ summary' = r.summary
    /\ only_in_ongoing' = r.only
    /\ outcome' = r.status
    /\ prior_df' = o
    /\ incoming' = n
    /\ repeat' = again
    /\ sheets' = IF r.status = "merged"
                  THEN merged_workbook(sheets, r.df, r.summary)
                  ELSE sheets
    /\ UNCHANGED today
    /\ UNCHANGED diffVars
    /\ UNCHANGED scrapeVars

Pressed(o, n, again) == Outcome(o, n, again, MergeLedger(o, n, today))

Merge ==
    /\ outcome = "idle"
    /\ \E n \in IncomingSnapshots(today) : Pressed(ongoing_df, n, FALSE)

\* the same new data is merged again, on the same day, into the ledger the
\* first merge returned
MergeAgain ==
    /\ outcome = "merged"
    /\ ~repeat
    /\ Pressed(ongoing_df, incoming, TRUE)

NextDay ==
    /\ outcome # "idle"
    /\ \E i \in 1..(Len(Days) - 1) : today = Days[i] /\ today' = Days[i + 1]
    /\ outcome' = "idle"
    /\ repeat' = FALSE
    /\ incoming' = NoFrame
    /\ prior_df' = NoFrame
    /\ summary' = NoSummary
    /\ only_in_ongoing' = NoFrame
    /\ UNCHANGED <<ongoing_df, sheets>>
    /\ UNCHANGED diffVars
    /\ UNCHANGED scrapeVars

Next == Merge \/ MergeAgain \/ NextDay

Spec == Init /\ [][Next]_vars

(***************************************************************************)
(* One merge of well-formed inputs: a ledger and new data in which every   *)
(* key is present and occurs once.  People are told apart by name and      *)
(* birth date, the new data may carry the gender and the ordering          *)
(* authority, and the observation value need not be the day of the merge.  *)
(***************************************************************************)
MaxLedger == 2

OnceBirthDates == {"2000-01-01", "2001-01-01"}

ObsValues(d) == {d, "2024-05-30"}

\* no two rows have the same name and birth date
DistinctIds(rs) ==
    \A i, j \in 1..Len(rs) : i # j => ~KeyEq(rs[i], rs[j], id_columns)

OnceValues(c, d) ==
    IF c = Nev THEN Names
    ELSE IF c = SzuletesiDatum THEN OnceBirthDates
    ELSE IF c = Nem THEN {"ferfi"}
    ELSE IF c = KorozestElrendeloSzerv THEN {"ORFK"}
    ELSE ObsValues(d)

OnceRecords(cols, d) ==
    {r \in [Range(cols) ->
                Names \cup OnceBirthDates \cup {"ferfi", "ORFK"} \cup ObsValues(d)] :
        \A c \in Range(cols) : r[c] \in OnceValues(c, d)}

OnceSchemas(d) ==
    {<<Nev, SzuletesiDatum, ObsLabel>>,
     <<Nev, Nem, SzuletesiDatum, KorozestElrendeloSzerv, DatedCol(d)>>}

OnceIncomingOver(cols, d) ==
    {[cols |-> cols, rows |-> rs] :
        rs \in {x \in UNION {[1..k -> OnceRecords(cols, d)] : k \in 0..MaxIncoming} :
                    DistinctIds(x)}}

OnceIncoming(d) == UNION {OnceIncomingOver(cols, d) : cols \in OnceSchemas(d)}

OnceLedgerSchemas == {<<Nev, Nem, SzuletesiDatum, DatedCol("2023-01-01")>>}

OnceLedgerRecords(cols) ==
    {r \in [Range(cols) -> Names \cup OnceBirthDates \cup {"no", "2023-01-01"}] :
        \A c \in Range(cols) :
            r[c] \in (IF c = Nev THEN Names
                      ELSE IF c = SzuletesiDatum THEN OnceBirthDates
                      ELSE IF c = Nem THEN {"no"}
                      ELSE {"2023-01-01"})}

OnceLedgersOver(cols) ==
    {[cols |-> cols, rows |-> rs] :
        rs \in {x \in UNION {[1..k -> OnceLedgerRecords(cols)] : k \in 1..MaxLedger} :
                    DistinctIds(x)}}

OnceLedgers == UNION {OnceLedgersOver(cols) : cols \in OnceLedgerSchemas}

InitOnce ==
    /\ ongoing_df \in OnceLedgers
    /\ sheets = LedgerFile(ongoing_df, <<>>)
    /\ incoming = NoFrame
    /\ prior_df = NoFrame
    /\ today = Days[1]
    /\ summary = NoSummary
    /\ only_in_ongoing = NoFrame
    /\ outcome = "idle"
    /\ repeat = FALSE
    /\ DiffIdle
    /\ ScrapeIdle

MergeOnce ==
    /\ outcome = "idle"
    /\ \E n \in OnceIncoming(today) : Pressed(ongoing_df, n, FALSE)

NextOnce == MergeOnce

SpecOnce == InitOnce /\ [][NextOnce]_vars

(***************************************************************************)
(* A run of scrape_missing_persons against a site.                         *)
(***************************************************************************)
InitScrape ==
    /\ variant \in {Async, Sync}
    \* up to MaxPages pages of results, a page that ends the collection,
    \* and possibly a page of results the site would serve after it
    /\ \E k \in 0..MaxPages :
          \E ps \in [1..k -> OkPages] :
             \E s \in StopPages :
                \E t \in {<<>>, <<[kind |-> "ok", entries |-> <<>>]>>} :
                   site = ps \o <<s>> \o t
    /\ page = 0
    /\ requested = <<>>
    /\ all_persons = <<>>
    /\ result_df = NoFrame
    /\ scrape_pc = "loop"
    /\ DiffIdle
    /\ MergeIdle

\* one pass of the while loop: the list page is requested; a page of
\* results adds its persons and moves to the next page, any other answer
\* leaves the loop
ScrapePage ==
    /\ scrape_pc = "loop"
    /\ page < Len(site)
    /\ requested' = Append(requested, page)
    /\ LET response == site[page + 1]
       IN  IF response.kind = "ok"
           THEN /\ all_persons' =
                      all_persons \o page_persons(variant, response.entries)
                /\ page' = next_page(page)
                /\ scrape_pc' = "loop"
           ELSE /\ scrape_pc' = "left"
                /\ UNCHANGED <<all_persons, page>>
    /\ UNCHANGED <<variant, site, result_df>>
    /\ UNCHANGED diffVars
    /\ UNCHANGED mergeVars

\* the statements after the loop
ReturnFrame ==
    /\ scrape_pc = "left"
    /\ result_df' = persons_frame(variant, all_persons)
    /\ scrape_pc' = "returned"
    /\ UNCHANGED <<variant, site, page, requested, all_persons>>
    /\ UNCHANGED diffVars
    /\ UNCHANGED mergeVars

NextScrape == ScrapePage \/ ReturnFrame

SpecScrape == InitScrape /\ [][NextScrape]_vars

(***************************************************************************)
(* Sessions in which a call is repeated: compare.py is run a second time   *)
(* on the same pair of snapshots in the same interpreter, or the button is *)
(* pressed on an uploaded ledger and pressed again.                        *)
(***************************************************************************)
CompareAgain ==
    /\ pc = "done"
    /\ Called("again")

\* if not ongoing_file or not new_file: nothing is merged
MergeUploaded ==
    /\ ongoing_df # NoFrame
    /\ Merge

InitCalls == InitBlank \/ Init

NextCalls == Compare \/ CompareAgain \/ MergeUploaded \/ MergeAgain

SpecCalls == InitCalls /\ [][NextCalls]_vars

(***************************************************************************)
(* Vocabulary of the properties of the diff                                *)
(***************************************************************************)
KeyTuple(row, keys) == [i \in 1..Len(keys) |-> row[keys[i]]]

KeysIn(f) == {KeyTuple(f.rows[i], key_columns) : i \in 1..Len(f.rows)}

RowsWithKey(f, k) == {i \in 1..Len(f.rows) : KeyTuple(f.rows[i], key_columns) = k}

UniqueKeys(f) == \A k \in KeysIn(f) : Cardinality(RowsWithKey(f, k)) = 1

OutKey(row) == [i \in 1..Len(key_columns) |-> row[CN(key_columns[i], "")]]

Tag(row) == row[CN(Valtozas, "")]

OutRows(t, k) ==
    {i \in 1..Len(changes_df.rows) :
        Tag(changes_df.rows[i]) = t /\ OutKey(changes_df.rows[i]) = k}

\* the value an output row shows for a field on one side (before / after)
Shown(row, c, sfx) ==
    IF CN(c, "") \in DOMAIN row THEN row[CN(c, "")]
    ELSE IF CN(c, sfx) \in DOMAIN row THEN row[CN(c, sfx)]
    ELSE NA

\* the output row carries the values of the input record rec on side sfx
ShowsRecord(row, rec, sfx) == \A c \in DOMAIN rec : Shown(row, c, sfx) = rec[c]

\* the field comparator of the specification
fieldsEqual(a, b) == (isna(a) /\ isna(b)) \/ (~isna(a) /\ ~isna(b) /\ a = b)

FieldOf(rec, c) == IF c \in DOMAIN rec THEN rec[c] ELSE NA

NonKeyFields(f) == Range(f.cols) \ Range(key_columns)

Returned == pc = "done" /\ ~changes_df.err

(***************************************************************************)
(* C3  The diff of a snapshot with itself has no rows.                     *)
(***************************************************************************)
\* C3 as stated: for every snapshot S, compare_dataframes(S, S, keys)
\* returns a ChangeSet with zero rows.
DiffReflexive ==
    (pc = "done" /\ old_df = new_df) =>
        (~changes_df.err /\ changes_df.rows = <<>>)

\* records of S that share a key have the same value in every field
SameKeySameFields(f) ==
    \A i, j \in 1..Len(f.rows) :
        KeyEq(f.rows[i], f.rows[j], key_columns) => f.rows[i] = f.rows[j]

\* C3 amended: for every snapshot S in which records sharing a key do not
\* differ in any field (in particular when keys are unique in S),
\* compare_dataframes(S, S, keys) returns a ChangeSet with zero rows; when
\* two records of S share a key and differ, it returns Modified rows.
DiffReflexiveUnlessDuplicates ==
    (pc = "done" /\ old_df = new_df) =>
        /\ ~changes_df.err
        /\ (changes_df.rows = <<>>) <=> SameKeySameFields(old_df)

\* C3 witness: a two-record snapshot with distinct keys and a missing value
\* was compared with itself and gave no row
DiffReflexiveWitness ==
    /\ Returned
    /\ old_df = new_df
    /\ Len(old_df.rows) = 2
    /\ UniqueKeys(old_df)
    /\ \E i \in 1..2 : isna(old_df.rows[i][Nem])
    /\ changes_df.rows = <<>>

(***************************************************************************)
(* C4  Change kinds agree with key membership.                             *)
(***************************************************************************)
\* C4: in the output every row has exactly one tag among Uj / Torolt /
\* Adatvaltozas; a row is Uj exactly when its key is a key of new and not of
\* old, Torolt exactly when its key is a key of old and not of new,
\* Adatvaltozas only when its key is in both; every record of new (of old)
\* with an unmatched key appears, once, with its values.
TagsAgreeWithKeys ==
    Returned =>
        LET ko == KeysIn(old_df)
            kn == KeysIn(new_df)
            rows == changes_df.rows
        IN  /\ \A i \in 1..Len(rows) :
                /\ Tag(rows[i]) \in {Uj, Torolt, Adatvaltozas}
                /\ (Tag(rows[i]) = Uj) <=> (OutKey(rows[i]) \in kn \ ko)
                /\ (Tag(rows[i]) = Torolt) <=> (OutKey(rows[i]) \in ko \ kn)
                /\ (Tag(rows[i]) = Adatvaltozas) => (OutKey(rows[i]) \in ko \cap kn)
            /\ \A k \in kn \ ko :
                /\ Cardinality(OutRows(Uj, k)) = Cardinality(RowsWithKey(new_df, k))
                /\ \A j \in RowsWithKey(new_df, k) : \E i \in OutRows(Uj, k) :
                       ShowsRecord(rows[i], new_df.rows[j], SfxUj)
            /\ \A k \in ko \ kn :
                /\ Cardinality(OutRows(Torolt, k)) = Cardinality(RowsWithKey(old_df, k))
                /\ \A j \in RowsWithKey(old_df, k) : \E i \in OutRows(Torolt, k) :
                       ShowsRecord(rows[i], old_df.rows[j], SfxElozo)

\* C4 witness: an output with an added row and a modified row, from a new
\* snapshot of two records
TagsWitness ==
    /\ Returned
    /\ Len(new_df.rows) = 2
    /\ \E i, j \in 1..Len(changes_df.rows) :
          /\ Tag(changes_df.rows[i]) = Uj
          /\ Tag(changes_df.rows[j]) = Adatvaltozas

(***************************************************************************)
(* C5  A same-key pair is Modified iff some non-key field differs.         *)
(***************************************************************************)
\* the pair differs in a non-key field of either schema, under fieldsEqual
PairDiffers(o, n) ==
    \E c \in NonKeyFields(old_df) \cup NonKeyFields(new_df) :
        ~fieldsEqual(FieldOf(o, c), FieldOf(n, c))

DifferingPairs(k) ==
    {p \in RowsWithKey(old_df, k) \X RowsWithKey(new_df, k) :
        PairDiffers(old_df.rows[p[1]], new_df.rows[p[2]])}

\* C5: whenever a ChangeSet is returned, the Modified rows of a key are as
\* many as the old/new pairs of that key that differ in some non-key field
\* of either input's schema (both missing is equal, missing versus present
\* differs, present versus present is value equality); a pair that does not
\* differ gives no row.
ModifiedIffFieldDiffers ==
    Returned =>
        \A k \in KeysIn(old_df) \cap KeysIn(new_df) :
            Cardinality(OutRows(Adatvaltozas, k)) = Cardinality(DifferingPairs(k))

(***************************************************************************)
(* C6  Snapshots without a common key                                      *)
(***************************************************************************)
\* C6: when old and new share no key, compare_dataframes returns a
\* ChangeSet that holds every record of new as a Uj row with its values,
\* every record of old as a Torolt row with its values, and nothing else.
DisjointGivesAddedAndRemoved ==
    (pc = "done" /\ KeysIn(old_df) \cap KeysIn(new_df) = {}) =>
        /\ ~changes_df.err
        /\ Len(changes_df.rows) = Len(old_df.rows) + Len(new_df.rows)
        /\ \A i \in 1..Len(changes_df.rows) : Tag(changes_df.rows[i]) # Adatvaltozas
        /\ \A j \in 1..Len(new_df.rows) : \E i \in 1..Len(changes_df.rows) :
              /\ Tag(changes_df.rows[i]) = Uj
              /\ ShowsRecord(changes_df.rows[i], new_df.rows[j], SfxUj)
        /\ \A j \in 1..Len(old_df.rows) : \E i \in 1..Len(changes_df.rows) :
              /\ Tag(changes_df.rows[i]) = Torolt
              /\ ShowsRecord(changes_df.rows[i], old_df.rows[j], SfxElozo)

(***************************************************************************)
(* C7  Number of rows against number of keys                               *)
(***************************************************************************)
NoIdenticalRecord ==
    \A i \in 1..Len(old_df.rows), j \in 1..Len(new_df.rows) :
        old_df.rows[i] # new_df.rows[j]

DistinctKeys == Cardinality(KeysIn(old_df) \cup KeysIn(new_df))

SameFields == Range(old_df.cols) = Range(new_df.cols)

FieldAppears(c) ==
    \/ CN(c, "") \in Range(changes_df.cols)
    \/ {CN(c, SfxElozo), CN(c, SfxUj)} \subseteq Range(changes_df.cols)

\* C10: for any two snapshots holding the key fields, compare_dataframes
\* returns a ChangeSet (it does not fail), and every non-key field of either
\* input is in it as one column or as a before/after pair.
NoFieldLost ==
    pc = "done" =>
        /\ ~changes_df.err
        /\ \A c \in NonKeyFields(old_df) \cup NonKeyFields(new_df) : FieldAppears(c)

(***************************************************************************)
(* C1  The counts of the summary sheet                                     *)
(***************************************************************************)
CountsAddUp ==
    /\ summary.final = summary.prior + summary.new_only
    /\ summary.common + summary.only_in_ongoing = summary.prior

\* C1 as stated: every merge that writes its summary reports
\* final = prior + NewOnly and Common + OnlyInLedger = prior.
MergeCounts == summary.written => CountsAddUp

\* no key that is absent from the input ledger occurs in two incoming records
NewKeysOnce ==
    \A k \in KeysIn(incoming) \ KeysIn(prior_df) :
        Cardinality(RowsWithKey(incoming, k)) = 1

\* C1 amended: the summary reports the true sizes of the input and the
\* merged ledger, and final = prior + NewOnly and
\* Common + OnlyInLedger = prior hold for every merge in which no key absent
\* from the ledger occurs in more than one incoming record (and fail
\* otherwise: such a key of c records is counted c times and appended c * c
\* times).
MergeCountsWhenNewKeysOnce ==
    summary.written =>
        /\ summary.prior = Len(prior_df.rows)
        /\ summary.final = Len(ongoing_df.rows)
        /\ summary.incoming = Len(incoming.rows)
        /\ CountsAddUp <=> NewKeysOnce

\* C1 witness: a merge that updated a row, added a row and left a row alone
MergeCountsWitness ==
    /\ summary.written
    /\ NewKeysOnce
    /\ summary.common = 1
    /\ summary.new_only = 1
    /\ summary.only_in_ongoing = 1
    /\ summary.final = 3

(***************************************************************************)
(* C2  Merging the same new data twice                                     *)
(***************************************************************************)
SecondMergeSame ==
    /\ outcome' = "merged"
    /\ summary'.new_only = 0
    /\ summary'.common = Len(incoming.rows)
    /\ ongoing_df' = ongoing_df

\* C2 as stated: the second merge of the same new data on the same day
\* reports NewOnly = 0 and Common = number of incoming records and returns
\* the ledger the first merge returned.
RemergeIdempotent ==
    [][(~repeat /\ repeat') => SecondMergeSame]_vars

\* every incoming key is a present value, occurs in at most one row of the
\* input ledger l and, when absent from l, in one incoming record only
KeysFit(l, n) ==
    \A k \in KeysIn(n) :
        /\ \A i \in 1..Len(k) : ~isna(k[i])
        /\ Cardinality(RowsWithKey(l, k)) <= 1
        /\ (RowsWithKey(l, k) = {}) => Cardinality(RowsWithKey(n, k)) = 1

\* C2 amended: when every key of incoming is a present value that occurs in
\* at most one row of the input ledger and, if absent from the input ledger,
\* in only one incoming record, the second merge of the same new data on the
\* same day reports NewOnly = 0 and Common = number of incoming records and
\* returns the ledger the first merge returned.
\* (before the second merge prior_df is the input ledger of the first)
RemergeIdempotentWhenKeysFit ==
    [][(~repeat /\ repeat' /\ KeysFit(prior_df, incoming)) => SecondMergeSame]_vars

\* C2 witness: new data of two records with different keys was merged a
\* second time and nothing changed
RemergeWitness ==
    /\ repeat
    /\ outcome = "merged"
    /\ Len(incoming.rows) = 2
    /\ UniqueKeys(incoming)
    /\ UniqueKeys(ongoing_df)
    /\ \A k \in KeysIn(incoming) : \A i \in 1..Len(k) : ~isna(k[i])
    /\ summary.new_only = 0
    /\ summary.common = 2
    /\ ongoing_df = prior_df

(***************************************************************************)
(* C8  The columns of the ledger                                           *)
(***************************************************************************)
\* C8: no step removes a column of the ledger, and a step adds at most one
\* observation column.
ColumnsOnlyGrow ==
    [][/\ Range(ongoing_df.cols) \subseteq Range(ongoing_df'.cols)
       /\ Cardinality({c \in Range(ongoing_df'.cols) \ Range(ongoing_df.cols) :
                          ContainsLabel(c)}) <= 1]_vars

\* C8 witness: a ledger that kept the observation columns of the earlier
\* cycles and received the column of the second day
ColumnsWitness ==
    /\ outcome = "merged"
    /\ today = Days[2]
    /\ summary.column = DatedCol(Days[2])
    /\ {DatedCol("2023-01-01"), DatedCol(Days[1]), DatedCol(Days[2])}
           \subseteq Range(ongoing_df.cols)

(***************************************************************************)
(* C9  The name of the observation column                                  *)
(***************************************************************************)
Scenario3Ledger == [cols |-> LedgerCols, rows |-> <<LedgerRow("A")>>]

Scenario3Incoming ==
    [cols |-> <<Nev, SzuletesiDatum, ObsLabel>>,
     rows |-> <<[c \in {Nev, SzuletesiDatum, ObsLabel} |->
                   IF c = Nev THEN "A"
                   ELSE IF c = SzuletesiDatum THEN "2000-01-01"
                   ELSE "2024-06-01"]>>]

\* C9: the ledger {A, 2000-01-01, "Eltunes datuma 2023-01-01"} merged on
\* 2024-06-01 with {A, 2000-01-01, "Eltunes datuma" = 2024-06-01} keeps its
\* row and the 2023 value and gains "Eltunes datuma 2024-06-01" = 2024-06-01,
\* the column named from the label and the date of the merge, with
\* Common = 1, NewOnly = 0, OnlyInLedger = 0.
Scenario3NamesColumnByMergeDate ==
    (/\ outcome = "merged"
     /\ prior_df = Scenario3Ledger
     /\ incoming = Scenario3Incoming
     /\ today = "2024-06-01") =>
        /\ Len(ongoing_df.rows) = 1
        /\ ongoing_df.rows[1][Nev] = "A"
        /\ ongoing_df.rows[1][DatedCol("2023-01-01")] = "2023-01-01"
        /\ summary.column = DatedCol("2024-06-01")
        /\ DatedCol("2024-06-01") \in Range(ongoing_df.cols)
        /\ ongoing_df.rows[1][DatedCol("2024-06-01")] = "2024-06-01"
        /\ summary.common = 1
        /\ summary.new_only = 0
        /\ summary.only_in_ongoing = 0

(***************************************************************************)
(* Vocabulary of the properties of the merge                               *)
(***************************************************************************)
\* a merge was run and returned a merged ledger
Merged == outcome = "merged"

\* the observation field of the new data: its first column with the label
ObsFieldOf(n) == date_columns(n)[1]

\* the rows of the returned ledger that the merge appended
AppendedRows == (Len(prior_df.rows) + 1)..Len(ongoing_df.rows)

LedgerKey(f, i) == KeyTuple(f.rows[i], key_columns)

(***************************************************************************)
(* C11  Fields of the new data that the ledger lacks                       *)
(***************************************************************************)
\* C11: after a merge every field of the incoming snapshot that the input
\* ledger lacks is a column of the returned ledger; apart from the
\* observation field, it is missing on every row the ledger had before and
\* holds the value of an incoming record of the same key on every appended
\* row.
IncomingFieldsAdded ==
    Merged =>
        \A c \in Range(incoming.cols) \ Range(prior_df.cols) :
            /\ c \in Range(ongoing_df.cols)
            /\ c # ObsFieldOf(incoming) =>
                  /\ \A i \in 1..Len(prior_df.rows) : isna(ongoing_df.rows[i][c])
                  /\ \A i \in AppendedRows :
                        \E j \in RowsWithKey(incoming, LedgerKey(ongoing_df, i)) :
                            ongoing_df.rows[i][c] = incoming.rows[j][c]

(***************************************************************************)
(* C12  The ledger rows of the people found again                          *)
(***************************************************************************)
\* the first merge of a day: the observation columns the input ledger has
\* were all written by earlier cycles
FirstMergeOfDay == outcome = "idle" /\ outcome' = "merged"

\* C12: for every row of the input ledger whose key is among the incoming
\* keys, a merge sets the observation field of the current cycle to the
\* observation value of an incoming record of that key, and every other
\* field of the row, the observation fields written by earlier cycles
\* included, keeps the value it has in the input ledger.
CommonRowsKeepOtherFields ==
    [][FirstMergeOfDay =>
         \A i \in 1..Len(ongoing_df.rows) :
            LedgerKey(ongoing_df, i) \in KeysIn(incoming') =>
               /\ \E j \in RowsWithKey(incoming', LedgerKey(ongoing_df, i)) :
                     ongoing_df'.rows[i][summary'.column]
                        = incoming'.rows[j][ObsFieldOf(incoming')]
               /\ \A c \in Range(ongoing_df.cols) :
                     (c # summary'.column \/ ContainsLabel(c)) =>
                        ongoing_df'.rows[i][c] = ongoing_df.rows[i][c]]_vars

(***************************************************************************)
(* C13  The rows appended for the people only in the new data              *)
(***************************************************************************)
NewOnlyKeys == KeysIn(incoming) \ KeysIn(prior_df)

AppendedWithKey(k) == {i \in AppendedRows : LedgerKey(ongoing_df, i) = k}

\* the appended row i carries the incoming record j: the fields they share
\* hold the incoming values, the observation field of the cycle the incoming
\* observation value, and every other field of the ledger is missing
CarriesRecord(i, j) ==
    \A c \in Range(ongoing_df.cols) :
        ongoing_df.rows[i][c] =
            IF c = summary.column THEN incoming.rows[j][ObsFieldOf(incoming)]
            ELSE IF c \in Range(incoming.cols) THEN incoming.rows[j][c]
            ELSE NA

AppendedRowsCarryRecords ==
    /\ \A i \in AppendedRows : LedgerKey(ongoing_df, i) \in NewOnlyKeys
    /\ \A k \in NewOnlyKeys :
          \A i \in AppendedWithKey(k) :
              \E j \in RowsWithKey(incoming, k) : CarriesRecord(i, j)

\* C13 as stated: a merge appends exactly one row for every key that is in
\* incoming and not in the ledger, and the row carries the incoming record.
OneRowPerNewKey ==
    Merged =>
        /\ AppendedRowsCarryRecords
        /\ \A k \in NewOnlyKeys : Cardinality(AppendedWithKey(k)) = 1

\* C13 amended: a merge appends rows only for the keys that are in incoming
\* and not in the ledger; each appended row carries an incoming record of
\* its key; a key that occurs in c incoming records gets c * c rows, so
\* exactly one row when it occurs in one incoming record.
RowsPerNewKey ==
    Merged =>
        /\ AppendedRowsCarryRecords
        /\ \A k \in NewOnlyKeys :
              Cardinality(AppendedWithKey(k))
                 = Cardinality(RowsWithKey(incoming, k)) * Cardinality(RowsWithKey(incoming, k))

\* C13 witness: a merge of two records, one of a known and one of a new
\* person, appended one row, with the gender of the incoming record
OneRowPerNewKeyWitness ==
    /\ Merged
    /\ Len(incoming.rows) = 2
    /\ summary.common = 1
    /\ Cardinality(NewOnlyKeys) = 1
    /\ Len(ongoing_df.rows) = Len(prior_df.rows) + 1
    /\ ongoing_df.rows[Len(ongoing_df.rows)][Nem] = "ferfi"
    /\ isna(ongoing_df.rows[Len(ongoing_df.rows)][DatedCol("2023-01-01")])

(***************************************************************************)
(* C14  The people only in the ledger                                      *)
(***************************************************************************)
OnlyInLedgerKeys == KeysIn(prior_df) \ KeysIn(incoming)

\* C14: the rows listed as only in the ledger are the rows of the input
\* ledger whose key (name and birth date) is the key of no incoming record,
\* each with the values it has in the input ledger, and they are as many as
\* the summary counts.
OnlyInLedgerRowsReported ==
    Merged =>
        /\ KeysIn(only_in_ongoing) = OnlyInLedgerKeys
        /\ \A k \in OnlyInLedgerKeys :
              /\ Cardinality(RowsWithKey(only_in_ongoing, k))
                    = Cardinality(RowsWithKey(prior_df, k))
              /\ \A i \in RowsWithKey(only_in_ongoing, k) :
                    \E j \in RowsWithKey(prior_df, k) :
                        \A c \in Range(prior_df.cols) :
                            only_in_ongoing.rows[i][c] = prior_df.rows[j][c]
        /\ Len(only_in_ongoing.rows) = summary.only_in_ongoing

(***************************************************************************)
(* C15  The collapse of a before/after column pair                         *)
(***************************************************************************)
\* the before-value and the after-value of field c in a row of Uncollapsed;
\* a field of new only has no before-value and keeps its name
Before(row, c) ==
    IF CN(c, SfxElozo) \in DOMAIN row THEN row[CN(c, SfxElozo)] ELSE NA

After(row, c) ==
    IF CN(c, SfxUj) \in DOMAIN row THEN row[CN(c, SfxUj)]
    ELSE IF CN(c, "") \in DOMAIN row THEN row[CN(c, "")]
    ELSE NA

\* the ChangeSet before the column pairs are collapsed; its rows are the
\* rows of the returned ChangeSet, in the same order
Uncollapsed == TaggedChanges(old_df, new_df, key_columns)

\* the rows of Uncollapsed as pairs of the before- and after-value of c
BeforeAfter(t, c) ==
    [i \in 1..Len(t.rows) |-> [b |-> Before(t.rows[i], c), a |-> After(t.rows[i], c)]]

EqualOrOneMissing(a, b) == isna(a) \/ isna(b) \/ a = b

Collapsible(ba) == \A i \in 1..Len(ba) : EqualOrOneMissing(ba[i].b, ba[i].a)

IsSingleColumn(c) == CN(c, "") \in Range(changes_df.cols)

IsColumnPair(c) ==
    /\ CN(c, "") \notin Range(changes_df.cols)
    /\ {CN(c, SfxElozo), CN(c, SfxUj)} \subseteq Range(changes_df.cols)

\* C15: in a returned ChangeSet a non-key field is a single column exactly
\* when in every row its before-value and after-value are equal or one of
\* them is missing, and is a before/after pair otherwise; the value of the
\* single column in a row is the before-value when that is present and the
\* after-value otherwise, so it differs from no present before- or
\* after-value of the row.
CollapseIsSound ==
    Returned =>
        LET t == Uncollapsed
        IN  /\ Len(changes_df.rows) = Len(t.rows)
            /\ \A c \in NonKeyFields(old_df) \cup NonKeyFields(new_df) :
                  LET ba == BeforeAfter(t, c)
                      collapsible == Collapsible(ba)
                  IN  /\ IsSingleColumn(c) <=> collapsible
                      /\ ~collapsible =>
                            /\ IsColumnPair(c)
                            /\ \A i \in 1..Len(ba) :
                                  /\ changes_df.rows[i][CN(c, SfxElozo)] = ba[i].b
                                  /\ changes_df.rows[i][CN(c, SfxUj)] = ba[i].a
                      /\ collapsible =>
                            \A i \in 1..Len(ba) :
                                LET v == changes_df.rows[i][CN(c, "")]
                                IN  /\ v = (IF ~isna(ba[i].b) THEN ba[i].b ELSE ba[i].a)
                                    /\ ~isna(ba[i].b) => v = ba[i].b
                                    /\ ~isna(ba[i].a) => v = ba[i].a

\* C15 witness: the gender is a single column of a ChangeSet that has an
\* added record with a gender and a modified pair whose gender is missing
\* before and present after
CollapseWitness ==
    /\ Returned
    /\ IsSingleColumn(Nem)
    /\ \E i, k \in 1..Len(changes_df.rows) :
          /\ Tag(changes_df.rows[i]) = Uj
          /\ ~isna(changes_df.rows[i][CN(Nem, "")])
          /\ Tag(changes_df.rows[k]) = Adatvaltozas
          /\ isna(Before(Uncollapsed.rows[k], Nem))
          /\ ~isna(changes_df.rows[k][CN(Nem, "")])

(***************************************************************************)
(* C16  When a field keeps its before/after pair                           *)
(***************************************************************************)
SameKeyPairs ==
    {p \in (1..Len(old_df.rows)) \X (1..Len(new_df.rows)) :
        KeyEq(old_df.rows[p[1]], new_df.rows[p[2]], key_columns)}

\* C16 as stated: whenever an old/new pair with the same key differs in a
\* non-key field under the field comparator (missing against present
\* included), the returned ChangeSet keeps that field as a before/after
\* pair and not as a single column.
PairKeptWhenFieldDiffers ==
    Returned =>
        \A c \in NonKeyFields(old_df) \cup NonKeyFields(new_df) :
            (\E p \in SameKeyPairs :
                ~fieldsEqual(FieldOf(old_df.rows[p[1]], c), FieldOf(new_df.rows[p[2]], c)))
               => IsColumnPair(c)

\* the pair holds two present values that are not the same
BothPresentAndDifferent(a, b) == ~isna(a) /\ ~isna(b) /\ a # b

Scenario1Old ==
    [cols |-> <<Nev, SzuletesiDatum, Nem>>,
     rows |-> <<[c \in {Nev, SzuletesiDatum, Nem} |->
                   IF c = Nev THEN "A"
                   ELSE IF c = SzuletesiDatum THEN "2000-01-01" ELSE "ferfi"]>>]

Scenario1New ==
    [cols |-> <<Nev, SzuletesiDatum, Nem>>,
     rows |-> <<[c \in {Nev, SzuletesiDatum, Nem} |->
                   IF c = Nev THEN "A"
                   ELSE IF c = SzuletesiDatum THEN "2000-01-01" ELSE "no"]>>]

Scenario1Changes ==
    [err |-> FALSE,
     cols |-> <<CN(Nev, ""), CN(SzuletesiDatum, ""),
                CN(Nem, SfxElozo), CN(Nem, SfxUj), CN(Valtozas, "")>>,
     rows |-> <<[c \in {CN(Nev, ""), CN(SzuletesiDatum, ""),
                        CN(Nem, SfxElozo), CN(Nem, SfxUj), CN(Valtozas, "")} |->
                   IF c = CN(Nev, "") THEN "A"
                   ELSE IF c = CN(SzuletesiDatum, "") THEN "2000-01-01"
                   ELSE IF c = CN(Nem, SfxElozo) THEN "ferfi"
                   ELSE IF c = CN(Nem, SfxUj) THEN "no"
                   ELSE Adatvaltozas]>>]

\* C16 amended: in a returned ChangeSet a non-key field is a before/after
\* pair exactly when some old/new pair with the same key holds two present,
\* different values in it, and a single column otherwise: a pair that
\* differs only in that the field is missing on one side does not keep the
\* column pair.  Old Nem = ferfi and new Nem = no give one Adatvaltozas row
\* with Nem (elozo) = ferfi and Nem (uj) = no.
PairKeptWhenPresentValuesDiffer ==
    /\ Returned =>
          \A c \in NonKeyFields(old_df) \cup NonKeyFields(new_df) :
              /\ IsColumnPair(c) <=>
                    \E p \in SameKeyPairs :
                        BothPresentAndDifferent(FieldOf(old_df.rows[p[1]], c),
                                                FieldOf(new_df.rows[p[2]], c))
              /\ IsSingleColumn(c) <=> ~IsColumnPair(c)
    /\ (pc = "done" /\ old_df = Scenario1Old /\ new_df = Scenario1New) =>
          changes_df = Scenario1Changes

\* C16 witness: the scenario was compared
Scenario1Witness ==
    /\ pc = "done"
    /\ old_df = Scenario1Old
    /\ new_df = Scenario1New
    /\ changes_df = Scenario1Changes

(***************************************************************************)
(* C17  New data without a key column or an observation column             *)
(***************************************************************************)
\* a merge was run (the button was pressed with both files uploaded)
Pressing == outcome # "idle"

LacksRequiredField(n) ==
    \/ Nev \notin Range(n.cols)
    \/ SzuletesiDatum \notin Range(n.cols)
    \/ \A i \in 1..Len(n.cols) : ~ContainsLabel(n.cols[i])

EmptyIncoming == Pressing /\ incoming.rows = <<>> /\ ~LacksRequiredField(incoming)

\* C18 as stated: the merge of an incoming snapshot with zero records
\* completes: it returns the rows of the input ledger and statistics with
\* incoming size 0, Common 0, NewOnly 0 and final size = prior size.
EmptyIncomingCompletes ==
    EmptyIncoming =>
        /\ outcome = "merged"
        /\ ongoing_df.rows = prior_df.rows
        /\ summary.written
        /\ summary.incoming = 0
        /\ summary.common = 0
        /\ summary.new_only = 0
        /\ summary.final = summary.prior

\* C18 amended: the merge of an incoming snapshot with zero records is
\* refused with the warning of the empty file: there is no merged ledger
\* and there are no statistics, and the ledger is as it was.
EmptyIncomingRefused ==
    EmptyIncoming =>
        /\ outcome = "empty"
        /\ ~summary.written
        /\ only_in_ongoing = NoFrame
        /\ ongoing_df = prior_df

\* C18 witness: new data with the three required columns and no record was
\* refused, the ledger of two rows is as it was
EmptyIncomingWitness ==
    /\ outcome = "empty"
    /\ incoming.cols = <<Nev, SzuletesiDatum, ObsLabel>>
    /\ incoming.rows = <<>>
    /\ Len(prior_df.rows) = 2
    /\ ongoing_df = prior_df
    /\ ~summary.written

(***************************************************************************)
(* C19  Records with a missing key value                                   *)
(***************************************************************************)
HasMissingKey(f) ==
    \E i \in 1..Len(f.rows) : \E k \in 1..Len(id_columns) : isna(f.rows[i][id_columns[k]])

\* C19 (merge): when a record of the ledger or of the incoming snapshot has
\* a missing key value, the merge ends with an error and returns no merged
\* ledger: the record is not joined and not copied into the output.
MissingKeyRejected ==
    (/\ Pressing
     /\ ~empty(incoming)
     /\ ~LacksRequiredField(incoming)
     /\ HasMissingKey(incoming) \/ HasMissingKey(prior_df)) =>
        /\ outcome \in {"stopped", "error"}
        /\ ~summary.written
        /\ ongoing_df = prior_df

(***************************************************************************)
(* C20  The empty string and the missing value                             *)
(***************************************************************************)
\* for the comparison a value is missing when it is absent or empty
missing(v) == isna(v) \/ v = Blank

EqualWhenBlankIsMissing(a, b) ==
    (missing(a) /\ missing(b)) \/ (~missing(a) /\ ~missing(b) /\ a = b)

PairsOfKey(k) == RowsWithKey(old_df, k) \X RowsWithKey(new_df, k)

\* C20: when the old and the new records of a key differ in no field, an
\* absent value and the empty string counting as the same, the ChangeSet
\* has no Adatvaltozas row for the key.
BlankEqualsMissing ==
    Returned =>
        \A k \in KeysIn(old_df) \cap KeysIn(new_df) :
            (\A p \in PairsOfKey(k) : \A c \in NonKeyFields(old_df) :
                EqualWhenBlankIsMissing(old_df.rows[p[1]][c], new_df.rows[p[2]][c]))
               => OutRows(Adatvaltozas, k) = {}

(***************************************************************************)
(* Auxiliary sheets of the ledger file                                     *)
(***************************************************************************)
\* the i-th sheet of the workbook before is in the workbook after, under its
\* name and with the cells it had
SheetKept(before, after, i) ==
    \E j \in 2..Len(after) :
        /\ after[j].name = before[i].name
        /\ after[j].cells = before[i].cells

\* C21: whenever a merge produces a merged ledger file, every sheet of the
\* uploaded ledger file other than the first is in the merged file under its
\* name and with unchanged content; the step also covers a second merge on
\* the same date, so the property passes through every sequence of merges
AuxiliarySheetsPassThrough ==
    [][outcome' = "merged" =>
          \A i \in 2..Len(sheets) : SheetKept(sheets, sheets', i)]_vars

(***************************************************************************)
(* C22  Duplicate keys within a snapshot                                   *)
(***************************************************************************)
\* a message about a key that occurs in more than one record
IsAmbiguousKeyWarning(m) == m.text = "AmbiguousKeyWarning"

\* the summary of a merge counts the duplicated keys
SummaryCountsDuplicates == "duplicates" \in DOMAIN summary

\* C22 (merge): when the incoming snapshot holds two records with the same
\* key, the merge completes with the joins taken as cross products and
\* surfaces the duplication: one of the messages it shows is a warning about
\* the duplicated key, or its summary carries a count of them.
DuplicateKeysSurfaced ==
    (/\ Pressing
     /\ ~empty(prior_df)
     /\ ~empty(incoming)
     /\ ~LacksRequiredField(incoming)
     /\ ~HasMissingKey(incoming)
     /\ ~HasMissingKey(prior_df)
     /\ ~UniqueKeys(incoming)) =>
        /\ Merged
        /\ \/ \E m \in messages(prior_df, incoming, today) : IsAmbiguousKeyWarning(m)
           \/ SummaryCountsDuplicates

ColumnsOf(c) == {i \in 1..Len(changes_df.cols) : changes_df.cols[i].name = c}

\* c is one column without a suffix
OneColumn(c) ==
    \E i \in ColumnsOf(c) :
        /\ ColumnsOf(c) = {i}
        /\ changes_df.cols[i] = CN(c, "")

\* c is its before column immediately followed by its after column
AdjacentPair(c) ==
    \E i \in ColumnsOf(c) :
        /\ ColumnsOf(c) = {i, i + 1}
        /\ changes_df.cols[i] = CN(c, SfxElozo)
        /\ changes_df.cols[i + 1] = CN(c, SfxUj)

CountsInRange ==
    summary.written =>
        /\ summary.common >= 0
        /\ summary.new_only >= 0
        /\ summary.only_in_ongoing >= 0
        /\ summary.common <= summary.prior

(***************************************************************************)
(* C26  The rows of the ledger stay                                        *)
(***************************************************************************)
\* the row i of the ledger is the row i of the ledger after the step: it has
\* the same key and, in every field but the observation field the step
\* writes, the same value
RowStays(i) ==
    /\ LedgerKey(ongoing_df', i) = LedgerKey(ongoing_df, i)
    /\ \A c \in Range(ongoing_df.cols) :
          \/ summary'.written /\ c = summary'.column
          \/ ongoing_df'.rows[i][c] = ongoing_df.rows[i][c]

\* C26: no step removes, reorders or duplicates a row of the ledger: the
\* rows of the ledger before the step are the first rows of the ledger after
\* it, in the same order, every key of the ledger has as many rows as
\* before, and the rows after them are the added ones; hence over any
\* sequence of merges the size of the ledger and its set of keys never
\* decrease.
LedgerRowsStay ==
    [][/\ Len(ongoing_df'.rows) >= Len(ongoing_df.rows)
       /\ \A i \in 1..Len(ongoing_df.rows) : RowStays(i)
       /\ \A k \in KeysIn(ongoing_df) :
             Cardinality(RowsWithKey(ongoing_df', k)) =
                 Cardinality(RowsWithKey(ongoing_df, k))
       /\ KeysIn(ongoing_df) \subseteq KeysIn(ongoing_df')]_vars

\* a merge into a ledger of two rows that updated a row and added one
LedgerRowsStayWitness ==
    /\ Merged
    /\ Len(prior_df.rows) = 2
    /\ summary.common > 0
    /\ Len(ongoing_df.rows) > 2

(***************************************************************************)
(* C27  The pages a collection requests                                    *)
(***************************************************************************)
\* the position in the site of the first page that is not a page of results
FirstStop(s) ==
    CHOOSE i \in 1..Len(s) :
        /\ s[i].kind # "ok"
        /\ \A j \in 1..(i - 1) : s[j].kind = "ok"

\* the records of the first n pages of the site, page after page
RECURSIVE Collected(_, _, _)
Collected(v, s, n) ==
    IF n = 0 THEN <<>>
    ELSE Collected(v, s, n - 1) \o page_persons(v, s[n].entries)

ExpectedOf(v, e) ==
    IF e.detail = "ok" THEN page_persons(v, <<e>>)
    ELSE IF e.pre_name # "" \/ e.pre_birth_date # ""
    THEN <<person_data(v, e.pre_name, e.pre_birth_date)>>
    ELSE <<>>

RECURSIVE ExpectedOfEntries(_, _)
ExpectedOfEntries(v, entries) ==
    IF entries = <<>> THEN <<>>
    ELSE ExpectedOf(v, Head(entries)) \o ExpectedOfEntries(v, Tail(entries))

RECURSIVE ExpectedPersons(_, _, _)
ExpectedPersons(v, s, n) ==
    IF n = 0 THEN <<>>
    ELSE ExpectedPersons(v, s, n - 1) \o ExpectedOfEntries(v, s[n].entries)

\* the number of pages of results gone through so far
PagesDone == IF scrape_pc = "loop" THEN Len(requested) ELSE Len(requested) - 1

\* C28: in both variants a person whose detail page answers with an error
\* status or raises is in the collection with a partial record of the name
\* and birth date taken from the list page whenever one of the two is not
\* empty, and is left out only when both are empty.
FailedDetailGivesPartialRecord ==
    scrape_pc # "idle" =>
        all_persons = ExpectedPersons(variant, site, PagesDone)

====
